---- MODULE Spec2Model ----
(***************************************************************************)
(* A model of the HSK quiz generator (src/app.py): the schema validators, *)
(* the per-image extraction wrapper, the thread-pool fan-out, the merge   *)
(* with its wrong-meaning deduplication and backfill, and the Streamlit   *)
(* session (navigation, rendering, checking and scoring).                 *)
(***************************************************************************)
EXTENDS Integers, Sequences, FiniteSets, TLC

VARIABLES
    responses,          \* what the extraction API answers for each image of the batch
    completion,         \* the order in which the calls of an atomic batch complete
    futures,            \* fan-out: one record per executor.submit, in submission order
    results,            \* fan-out: the results dict, in insertion order: <<index, quiz>> pairs
    returned,           \* what generate_quiz_from_images gave back (or "pending")
    has_quiz,           \* 'quiz_data' in st.session_state
    quiz_data,          \* st.session_state.quiz_data
    current_question,   \* st.session_state.current_question
    score,              \* st.session_state.score
    answered_questions, \* st.session_state.answered_questions
    options_cache,      \* st.session_state["options_<id>"]
    gap_options_cache,  \* st.session_state["gap_options_<id>"]
    dialogue_parts_cache, \* st.session_state["dialogue_parts_<id>"]
    dialogue_order,     \* st.session_state["dialogue_order_<id>"]
    event,              \* the widget interaction that triggered the latest script run
    user_answers,       \* the answer widgets' values read by the latest run
    is_correct,         \* what display_question returned in the latest run
    sub_correct,        \* reading comprehension: the per-sub-question verdicts shown
    banner,             \* the st.error / st.success message of the generate section
    selectbox,          \* the state Streamlit holds for the key-less question selectbox
    rerun               \* st.rerun() was called and the next script run has not started

vars == <<responses, completion, futures, results, returned, has_quiz, quiz_data,
          current_question, score, answered_questions, options_cache,
          gap_options_cache, dialogue_parts_cache, dialogue_order, event,
          user_answers, is_correct, sub_correct, banner, selectbox, rerun>>

gen_vars == <<responses, completion, futures, results, returned>>

session_vars == <<has_quiz, quiz_data, current_question, score, answered_questions,
                  options_cache, gap_options_cache, dialogue_parts_cache,
                  dialogue_order, event, user_answers, is_correct, sub_correct, banner,
                  selectbox, rerun>>

(***************************************************************************)
(* Strings.  str.strip() removes the whitespace at both ends.            *)
(* str.lower() is modelled by what it does on the strings the model uses;  *)
(* every other string is already lower case.  The parser accepts no letter *)
(* of Latin Extended-A, no CJK character and no emoji inside a string, so  *)
(* those letters are written without their mark (d-stroke as d, i-tilde as *)
(* i, a-breve as a, e/a-macron as e/a), Chinese text is written in         *)
(* unaccented pinyin and the emoji that open the banners are left out.     *)
(* The same holds for the whitespace characters from U+2000 on (U+2000 to  *)
(* U+200A, U+2028, U+2029, U+202F, U+205F, U+3000): no string of the model *)
(* can hold one, so they cannot be listed in Whitespace either.            *)
(***************************************************************************)
\* The characters str.strip() removes: tab, line feed, vertical tab (U+000B),
\* form feed, carriage return, U+001C to U+001F, space, U+0085, U+00A0 and
\* U+1680.
Whitespace ==
    {"\t", "\n", "", "\f", "\r", "", "", "", "", " ", "",
     " ", " "}

RECURSIVE LStrip(_)
\* str.lstrip()
LStrip(s) ==
    IF Len(s) > 0 /\ SubSeq(s, 1, 1) \in Whitespace
    THEN LStrip(SubSeq(s, 2, Len(s))) ELSE s

RECURSIVE RStrip(_)
\* str.rstrip()
RStrip(s) ==
    IF Len(s) > 0 /\ SubSeq(s, Len(s), Len(s)) \in Whitespace
    THEN RStrip(SubSeq(s, 1, Len(s) - 1)) ELSE s

\* str.strip()
Strip(s) == RStrip(LStrip(s))

Lower(s) ==
    CASE s = "Giáo viên" -> "giáo viên"
      [] s = "Học sinh" -> "học sinh"
      [] s = "Con chó" -> "con chó"
      [] s = "Con Mèo" -> "con mèo"
      [] s = "Từ khác" -> "từ khác"
      [] s = "Xuésheng" -> "xuésheng"
      [] s = "N/A" -> "n/a"
      [] OTHER -> s

\* Python's None for an Optional[str]: the empty sequence; Some(s) is <<s>>.
None == <<>>

Some(s) == <<s>>

\* x in list
InSeq(x, seq) == \E i \in 1..Len(seq) : seq[i] = x

\* [f(m) for m in list]
LowerAll(seq) == [i \in 1..Len(seq) |-> Lower(seq[i])]

(***************************************************************************)
(* The schema: QuizQuestion and QuizData with their field validators.     *)
(***************************************************************************)
\* The required-text validators: raise on empty or whitespace-only, else strip.
question_must_not_be_empty(v) ==
    [raised |-> (v = "" \/ Strip(v) = ""), value |-> Strip(v)]

chinese_word_must_not_be_empty(v) ==
    [raised |-> (v = "" \/ Strip(v) = ""), value |-> Strip(v)]

pinyin_must_not_be_empty(v) ==
    [raised |-> (v = "" \/ Strip(v) = ""), value |-> Strip(v)]

meaning_must_not_be_empty(v) ==
    [raised |-> (v = "" \/ Strip(v) = ""), value |-> Strip(v)]

RECURSIVE CleanMeanings(_, _, _)
\* The loop of validate_wrong_meanings: strip, drop empties and
\* case-insensitive repeats, keep first occurrences in order.
CleanMeanings(v, cleaned_meanings, seen) ==
    IF v = <<>> THEN cleaned_meanings
    ELSE LET meaning_clean == Strip(Head(v))
         IN IF meaning_clean # "" /\ Lower(meaning_clean) \notin seen
            THEN CleanMeanings(Tail(v), Append(cleaned_meanings, meaning_clean),
                               seen \cup {Lower(meaning_clean)})
            ELSE CleanMeanings(Tail(v), cleaned_meanings, seen)

validate_wrong_meanings(v) == CleanMeanings(v, <<>>, {})

\* QuizQuestion(**raw): the validated question, or raised |-> TRUE.
QuizQuestion(raw) ==
    LET q == question_must_not_be_empty(raw.question)
        c == chinese_word_must_not_be_empty(raw.chinese_word)
        p == pinyin_must_not_be_empty(raw.pinyin)
        m == meaning_must_not_be_empty(raw.meaning)
    IN IF q.raised \/ c.raised \/ p.raised \/ m.raised
       THEN [raised |-> TRUE, value |-> raw]
       ELSE [raised |-> FALSE,
             value |-> [raw EXCEPT !.question = q.value,
                                   !.chinese_word = c.value,
                                   !.pinyin = p.value,
                                   !.meaning = m.value,
                                   !.wrong_meanings = validate_wrong_meanings(@)]]

\* QuizData.must_have_questions
must_have_questions(v) == [raised |-> (v = <<>>), value |-> v]

\* QuizData(title=..., questions=[raw, ...]) built from a response.
QuizData(title, raw_questions) ==
    LET built == [i \in 1..Len(raw_questions) |-> QuizQuestion(raw_questions[i])]
        checked == must_have_questions(raw_questions)
    IN IF checked.raised \/ \E i \in 1..Len(built) : built[i].raised
       THEN [raised |-> TRUE]
       ELSE [raised |-> FALSE,
             value |-> [title |-> title,
                        questions |-> [i \in 1..Len(built) |-> built[i].value]]]

\* QuizData.model_validate(obj) for a JSON object that may leave out
\* "questions" or "title": a field left out takes its default, and a default
\* is not passed to the field's validator.
model_validate(obj) ==
    LET title == IF "title" \in DOMAIN obj THEN obj.title ELSE Some("Quiz")
    IN IF "questions" \in DOMAIN obj
       THEN QuizData(title, obj.questions)
       ELSE [raised |-> FALSE, value |-> [title |-> title, questions |-> <<>>]]

\* A raw question as the API returns it, with the schema's defaults.
RawQuestion(type, question, chinese_word, pinyin, meaning, wrong_meanings) ==
    [id |-> 1, type |-> type, question |-> question, chinese_word |-> chinese_word,
     pinyin |-> pinyin, meaning |-> meaning, wrong_meanings |-> wrong_meanings,
     options |-> <<>>, correct_answer |-> "", dialogue_parts |-> <<>>,
     correct_order |-> <<>>, subquestions |-> <<>>, subanswers |-> <<>>,
     suboptions |-> <<>>]

(***************************************************************************)
(* generate_single_quiz: one extraction call.  A response is either an    *)
(* exception of the API client or the JSON it returned, which the client  *)
(* validates against QuizData (a validation failure raises as well).      *)
(***************************************************************************)
ApiException(reason) == [kind |-> "exception", reason |-> reason]

ApiJson(title, raw_questions) ==
    [kind |-> "json", title |-> title, questions |-> raw_questions]

\* JSON without a "questions" key, and JSON without a "title" key.
ApiJsonNoQuestionsKey(title) == [kind |-> "json", title |-> title]

ApiJsonNoTitleKey(raw_questions) == [kind |-> "json", questions |-> raw_questions]

\* client.chat.completions.create(response_model=QuizData, ...)
create(response) ==
    IF response.kind = "exception"
    THEN [raised |-> TRUE, reason |-> response.reason]
    ELSE LET parsed == model_validate(response)
         IN IF parsed.raised
            THEN [raised |-> TRUE, reason |-> "validation error"]
            ELSE [raised |-> FALSE, value |-> parsed.value]

\* The except branch: the one-question placeholder quiz, built with
\* QuizQuestion(...) and QuizData(...), so that the validators strip its
\* texts (the question cannot be blank: it starts with the fixed text).
error_quiz(image_index, reason) ==
    QuizData(Some("Lỗi - Ảnh " \o ToString(image_index + 1)),
             <<[RawQuestion("error",
                    "Lỗi khi tạo quiz từ ảnh " \o ToString(image_index + 1)
                        \o ": " \o reason,
                    "N/A", "N/A", "N/A", <<>>) EXCEPT !.id = 1]>>).value

\* Returns (quiz_data, image_index, error); error is None on success.
generate_single_quiz(response, image_index) ==
    LET r == create(response)
    IN IF r.raised
       THEN [quiz_data |-> error_quiz(image_index, r.reason),
             image_index |-> image_index, error |-> Some(r.reason)]
       ELSE [quiz_data |-> r.value, image_index |-> image_index, error |-> None]

(***************************************************************************)
(* The merge of generate_quiz_from_images.                                *)
(***************************************************************************)
common_wrong_options ==
    <<"học sinh", "giáo viên", "bạn bè", "gia dình", "cuộc sống",
      "công việc", "thời gian", "nhà cửa", "tình yêu", "thức an",
      "nước uống", "sức khỏe", "tiền bạc", "giao thông", "du lịch",
      "di lại", "ngôn ngữ", "học tập", "tình cảm", "hạnh phúc">>

generic_wrong == <<"từ khác", "nghia khác", "không có nghia này", "nghia sai">>

MinWrong == 3

PoolWorkers == 6

TitlesShown == 3

RECURSIVE FilterLoopKeepsCorrect(_, _, _, _)
\* FilterLoop without the comparison against the question's correct meaning.
FilterLoopKeepsCorrect(wrong_meanings, correct, filtered, used) ==
    IF wrong_meanings = <<>> THEN [filtered |-> filtered, used |-> used]
    ELSE LET meaning == Head(wrong_meanings)
         IN IF Lower(meaning) \notin used
            THEN FilterLoopKeepsCorrect(Tail(wrong_meanings), correct,
                                        Append(filtered, meaning),
                                        used \cup {Lower(meaning)})
            ELSE FilterLoopKeepsCorrect(Tail(wrong_meanings), correct, filtered, used)

RECURSIVE FilterLoop(_, _, _, _)
\* for meaning in question.wrong_meanings: keep it unless already used in the
\* merged quiz or equal to the correct meaning (case-insensitively).
FilterLoop(wrong_meanings, correct, filtered, used) ==
    IF wrong_meanings = <<>> THEN [filtered |-> filtered, used |-> used]
    ELSE LET meaning == Head(wrong_meanings)
         IN IF Lower(meaning) \notin used /\ Lower(meaning) # Lower(correct)
            THEN FilterLoop(Tail(wrong_meanings), correct, Append(filtered, meaning),
                            used \cup {Lower(meaning)})
            ELSE FilterLoop(Tail(wrong_meanings), correct, filtered, used)

RECURSIVE BackfillLoop(_, _, _, _)
\* for meaning in common_wrong_options: stop at three, skip used ones, the
\* correct meaning and anything already in the list.
BackfillLoop(pool, correct, filtered, used) ==
    IF pool = <<>> \/ Len(filtered) >= MinWrong
    THEN [filtered |-> filtered, used |-> used]
    ELSE LET meaning == Head(pool)
         IN IF /\ Lower(meaning) \notin used
               /\ Lower(meaning) # Lower(correct)
               /\ ~InSeq(meaning, filtered)
            THEN BackfillLoop(Tail(pool), correct, Append(filtered, meaning),
                              used \cup {Lower(meaning)})
            ELSE BackfillLoop(Tail(pool), correct, filtered, used)

\* merge_question backfilling only the questions that show wrong meanings.
merge_question_typed_backfill(question, question_id, used_wrong_meanings) ==
    LET f == FilterLoop(question.wrong_meanings, question.meaning, <<>>,
                        used_wrong_meanings)
        b == IF Len(f.filtered) < MinWrong /\ question.type = "chinese_to_pinyin_meaning"
             THEN BackfillLoop(common_wrong_options, question.meaning, f.filtered, f.used)
             ELSE f
    IN [question |-> [question EXCEPT !.wrong_meanings = b.filtered,
                                      !.id = question_id],
        used |-> b.used]

\* The body of the inner loop for one question: filter, backfill, renumber.
merge_question(question, question_id, used_wrong_meanings) ==
    LET f == FilterLoop(question.wrong_meanings, question.meaning, <<>>,
                        used_wrong_meanings)
        b == IF Len(f.filtered) < MinWrong
             THEN BackfillLoop(common_wrong_options, question.meaning, f.filtered, f.used)
             ELSE f
    IN [question |-> [question EXCEPT !.wrong_meanings = b.filtered,
                                      !.id = question_id],
        used |-> b.used]

RECURSIVE MergeLoop(_, _, _)
\* The nested loops over all_quiz_data and quiz_data.questions, on the
\* flattened question list.
MergeLoop(questions, combined_questions, used_wrong_meanings) ==
    IF questions = <<>> THEN combined_questions
    ELSE LET m == merge_question(Head(questions), Len(combined_questions) + 1,
                                 used_wrong_meanings)
         IN MergeLoop(Tail(questions), Append(combined_questions, m.question), m.used)

RECURSIVE GenericLoop(_, _, _)
\* for wrong in generic_wrong: stop at three, skip what the question has.
GenericLoop(generic, correct, wrong_meanings) ==
    IF generic = <<>> \/ Len(wrong_meanings) >= MinWrong THEN wrong_meanings
    ELSE LET wrong == Head(generic)
         IN IF ~InSeq(Lower(wrong), LowerAll(wrong_meanings))
               /\ Lower(wrong) # Lower(correct)
            THEN GenericLoop(Tail(generic), correct, Append(wrong_meanings, wrong))
            ELSE GenericLoop(Tail(generic), correct, wrong_meanings)

\* The final check on one question of the combined list.
final_check(question) ==
    IF question.type = "chinese_to_pinyin_meaning"
       /\ Len(question.wrong_meanings) < MinWrong
    THEN [question EXCEPT
            !.wrong_meanings = GenericLoop(generic_wrong, question.meaning, @)]
    ELSE question

RECURSIVE Flatten(_)
\* Every sub-quiz's questions, in the order of all_quiz_data.
Flatten(all_quiz_data) ==
    IF all_quiz_data = <<>> THEN <<>>
    ELSE Head(all_quiz_data).questions \o Flatten(Tail(all_quiz_data))

RECURSIVE Join(_)
\* ", ".join(titles)
Join(titles) ==
    IF titles = <<>> THEN ""
    ELSE IF Len(titles) = 1 THEN titles[1][1]
    ELSE titles[1][1] \o ", " \o Join(Tail(titles))

\* titles[:3]
FirstTitles(titles) ==
    SubSeq(titles, 1, IF Len(titles) < TitlesShown THEN Len(titles) ELSE TitlesShown)

\* The combined title; str.join raises TypeError on a None title, naming the
\* first such item.
combined_title(titles, num_images) ==
    IF \E i \in 1..Len(FirstTitles(titles)) : titles[i] = None
    THEN [raised |-> TRUE,
          value |-> "sequence item "
                    \o ToString((CHOOSE i \in 1..Len(FirstTitles(titles)) :
                                    /\ titles[i] = None
                                    /\ \A j \in 1..(i - 1) : titles[j] # None) - 1)
                    \o ": expected str instance, NoneType found"]
    ELSE [raised |-> FALSE,
          value |-> "Quiz tổng hợp từ " \o ToString(num_images) \o " ảnh: "
                    \o Join(FirstTitles(titles))
                    \o (IF Len(titles) > TitlesShown
                        THEN " và " \o ToString(Len(titles) - TitlesShown) \o " ảnh khác"
                        ELSE "")]

ReturnedNone == [kind |-> "None"]

\* An exception leaving the function: its type and its str().
Raised(error, message) == [kind |-> "raised", error |-> error, message |-> message]

\* str() of the ValidationError that QuizData(questions=[], ...) raises (the
\* line with the link to the documentation, which names the installed
\* version, is left out).
no_questions_message ==
    "1 validation error for QuizData\nquestions\n  Value error, Quiz must have at least one question [type=value_error, input_value=[], input_type=list]"

ReturnedQuiz(title, questions) ==
    [kind |-> "quiz", title |-> title, questions |-> questions]

\* Everything after the results are back in image order.
merge_quizzes(all_quiz_data, num_images) ==
    IF all_quiz_data = <<>> THEN ReturnedNone
    ELSE LET combined == MergeLoop(Flatten(all_quiz_data), <<>>, {})
             titles == [i \in 1..Len(all_quiz_data) |-> all_quiz_data[i].title]
             title == combined_title(titles, num_images)
             checked == [i \in 1..Len(combined) |-> final_check(combined[i])]
         IN IF title.raised THEN Raised("TypeError", title.value)
            ELSE IF must_have_questions(checked).raised
            THEN Raised("ValidationError", no_questions_message)
            ELSE ReturnedQuiz(title.value, checked)

(***************************************************************************)
(* The fan-out of generate_quiz_from_images: one call per image, results  *)
(* stored under the image index as the calls complete, then read back in  *)
(* image order.  Image indices are 0-based as in the code; image i is     *)
(* responses[i + 1].                                                      *)
(***************************************************************************)
\* key in results
InResults(res, key) == \E k \in 1..Len(res) : res[k][1] = key

\* results[key]
ResultAt(res, key) == res[CHOOSE k \in 1..Len(res) : res[k][1] = key][2]

\* results[key] = value on an insertion-ordered dict
DictSet(res, key, value) ==
    IF InResults(res, key)
    THEN [k \in 1..Len(res) |-> IF res[k][1] = key THEN <<key, value>> ELSE res[k]]
    ELSE Append(res, <<key, value>>)

\* The body of the as_completed loop for the future of image i.
collect_result(res, batch, i) ==
    LET r == generate_single_quiz(batch[i + 1], i)
    IN DictSet(res, r.image_index, r.quiz_data)

RECURSIVE CollectAll(_, _, _)
\* The as_completed loop over a whole completion order.
CollectAll(order, batch, res) ==
    IF order = <<>> THEN res
    ELSE CollectAll(Tail(order), batch, collect_result(res, batch, Head(order)))

\* The mutated reassembly: the results in the order they were stored.
reassemble_in_completion_order(res, num_images) == [k \in 1..Len(res) |-> res[k][2]]

RECURSIVE ReassembleFrom(_, _, _)
\* for i in range(len(image_files)): if i in results: append results[i]
ReassembleFrom(i, num_images, res) ==
    IF i >= num_images THEN <<>>
    ELSE IF InResults(res, i)
    THEN <<ResultAt(res, i)>> \o ReassembleFrom(i + 1, num_images, res)
    ELSE ReassembleFrom(i + 1, num_images, res)

reassemble(res, num_images) == ReassembleFrom(0, num_images, res)

\* The whole function, for a batch whose calls complete in the given order.
generate_quiz_from_images(batch, order) ==
    IF batch = <<>> THEN ReturnedNone
    ELSE merge_quizzes(reassemble(CollectAll(order, batch, <<>>), Len(batch)),
                       Len(batch))

(***************************************************************************)
(* Sample content: the questions and responses the batches are made of.   *)
(***************************************************************************)
PinyinType == "chinese_to_pinyin_meaning"

PinyinStudent ==
    RawQuestion("chinese_to_pinyin_meaning", "Pinyin và nghia của từ xuesheng là gì?",
                "xuesheng", "xuésheng", "Học sinh",
                <<" giáo viên ", "Giáo viên", "học sinh", "Từ khác">>)

PinyinCat ==
    RawQuestion("chinese_to_pinyin_meaning", "Pinyin và nghia của từ mao là gì?",
                "mao", " mao", "con mèo", <<" Con chó", "con chim", "Con Mèo", "con cá">>)

PinyinFamily ==
    RawQuestion("chinese_to_pinyin_meaning", "Pinyin và nghia của từ jia là gì?",
                "jia", "jia", "gia dình", <<>>)

GapTime ==
    [RawQuestion("gap_filling", "Chọn từ phù hợp dể diền vào chỗ trống",
                 "shijian", "shíjian", "thời gian", <<>>)
        EXCEPT !.options = <<"shijian", "xuesheng">>, !.correct_answer = "shijian"]

DialogueHello ==
    [RawQuestion("dialogue_arrangement", "Sắp xếp các phần của hội thoại theo thứ tự dúng",
                 "wenhou", "wènhòu", "chào hỏi", <<>>)
        EXCEPT !.dialogue_parts = <<"Ni jiao shenme mingzi?", "Wo jiao Xiao Ming.">>,
               !.correct_order = <<0, 1>>]

ReadingShop ==
    [RawQuestion("reading_comprehension", "Yuedu lijie (Doc hiểu)",
                 "shangdian", "shangdiàn", "cửa hàng", <<>>)
        EXCEPT !.subquestions = <<"Ta qu nar?", "Ta mai shenme?">>,
               !.suboptions = <<<<"xuexiao", "shangdian">>, <<"shuiguo", "shu">>>>,
               !.subanswers = <<"shangdian", "shuiguo">>]

RespTimeout == ApiException("timeout")

RespVocabulary == ApiJson(Some("HSK 4"), <<PinyinStudent, GapTime>>)

RespUntitled == ApiJson(None, <<PinyinCat>>)

RespLesson == ApiJson(Some("Bài 2"), <<DialogueHello, ReadingShop, PinyinFamily>>)

RespNoQuestions == ApiJson(Some("Trống"), <<>>)

RespBlankMeaning == ApiJson(Some("HSK 4"), <<[PinyinCat EXCEPT !.meaning = "   "]>>)

\* Bounds of the model.
MaxImages == 3

\* All sequences over S of length lo..hi.
SeqsOf(S, lo, hi) == UNION {[1..n -> S] : n \in lo..hi}

MergeResponses ==
    {RespTimeout, RespVocabulary, RespUntitled, RespLesson, RespNoQuestions,
     RespBlankMeaning}

MergeBatches == SeqsOf(MergeResponses, 0, MaxImages)

\* The orders in which as_completed can yield the calls of a batch of n
\* images: every order of the image indices 0..n-1.
CompletionOrders(n) ==
    {[k \in 1..n |-> p[k] - 1] : p \in Permutations(1..n)}

Pending == [kind |-> "pending"]

NoEvent == [kind |-> "none"]

\* No state held for a widget: it was not on the page in the last run.
NoWidget == <<>>

\* The session before any quiz exists, and an idle fan-out.
SessionIdle ==
    /\ has_quiz = FALSE
    /\ quiz_data = [title |-> "", questions |-> <<>>]
    /\ current_question = 0
    /\ score = 0
    /\ answered_questions = {}
    /\ options_cache = <<>>
    /\ gap_options_cache = <<>>
    /\ dialogue_parts_cache = <<>>
    /\ dialogue_order = <<>>
    /\ event = NoEvent
    /\ user_answers = <<>>
    /\ is_correct = FALSE
    /\ sub_correct = <<>>
    /\ banner = ""
    /\ selectbox = NoWidget
    /\ rerun = FALSE

(***************************************************************************)
(* SpecMerge: generate_quiz_from_images as a function of the batch.       *)
(***************************************************************************)
InitMerge ==
    /\ responses \in MergeBatches
    /\ completion \in CompletionOrders(Len(responses))
    /\ futures = <<>>
    /\ results = <<>>
    /\ returned = Pending
    /\ SessionIdle

RunBatch ==
    /\ returned = Pending
    /\ returned' = generate_quiz_from_images(responses, completion)
    /\ results' = CollectAll(completion, responses, <<>>)
    /\ UNCHANGED <<responses, completion, futures>>
    /\ UNCHANGED session_vars

NextMerge == RunBatch

SpecMerge == InitMerge /\ [][NextMerge]_vars

(***************************************************************************)
(* SpecSchema: the same function on one image, over every JSON object the *)
(* API can answer with up to MaxSchemaQuestions questions whose required  *)
(* texts are empty, whitespace-only or padded.                            *)
(***************************************************************************)
MaxSchemaQuestions == 1

TextInputs == {"", " \f\t", " mao"}

\* The question types the prompt asks for.
QuestionTypes ==
    {PinyinType, "gap_filling", "dialogue_arrangement", "reading_comprehension"}

\* Questions that leave every optional field to its default: pinyin questions
\* over every combination of the four required texts, and one question of
\* each type with padded texts.
SchemaQuestions ==
    {RawQuestion(PinyinType, q, c, p, m, <<>>) :
        q \in TextInputs, c \in TextInputs, p \in TextInputs, m \in TextInputs}
      \cup {RawQuestion(type, " mao", " mao", " mao", " mao", <<>>) : type \in QuestionTypes}

SchemaResponses ==
    {ApiJson(Some("HSK 4"), qs) : qs \in SeqsOf(SchemaQuestions, 0, MaxSchemaQuestions)}
        \cup {ApiJsonNoTitleKey(qs) : qs \in SeqsOf(SchemaQuestions, 0, MaxSchemaQuestions)}
        \cup {ApiJsonNoQuestionsKey(Some("HSK 4"))}

InitSchema ==
    /\ responses \in {<<r>> : r \in SchemaResponses}
    /\ completion \in CompletionOrders(Len(responses))
    /\ futures = <<>>
    /\ results = <<>>
    /\ returned = Pending
    /\ SessionIdle

SpecSchema == InitSchema /\ [][NextMerge]_vars

(***************************************************************************)
(* SpecPool: the fan-out step by step.  The main thread submits one call  *)
(* per image.  The executor has at most max_workers worker threads; a     *)
(* worker without a call takes the oldest one off the work queue (the     *)
(* future is still pending), then marks the future running and calls      *)
(* generate_single_quiz, so that of two calls taken by two workers either *)
(* may be the first to run.  The calls finish in any order, the           *)
(* as_completed loop stores each finished call's quiz under its image     *)
(* index, and after the last one the merge runs.                          *)
(* A future is "queued" (in the work queue), "dequeued" (held by a worker, *)
(* not yet running), "running", "finished" or "collected".                 *)
(***************************************************************************)
MaxPoolImages == 7

Min(a, b) == IF a < b THEN a ELSE b

\* The mutated pool size: one worker per image, however many images.
max_workers_per_image(num_images) == num_images

\* ThreadPoolExecutor(max_workers=min(6, len(image_files)))
max_workers(num_images) == Min(PoolWorkers, num_images)

\* The i-th image of a fan-out batch (i from 1): its own title and words; the
\* call for the third image times out and every second image has two questions.
PoolQuestion(i, k) ==
    RawQuestion(PinyinType, "Pinyin và nghia cua tu " \o ToString(i) \o "." \o ToString(k),
                "tu " \o ToString(i) \o "." \o ToString(k), "pinyin " \o ToString(i),
                "nghia " \o ToString(i) \o "." \o ToString(k), <<"gia dình", "Giáo viên">>)

PoolResponse(i) ==
    IF i = 3 THEN RespTimeout
    ELSE ApiJson(Some("Anh " \o ToString(i)),
                 IF i % 2 = 0 THEN <<PoolQuestion(i, 1), PoolQuestion(i, 2)>>
                 ELSE <<PoolQuestion(i, 1)>>)

PoolBatch(n) == [i \in 1..n |-> PoolResponse(i)]

\* A batch whose first image comes back as a quiz without a title.
PoolBatchUntitled == <<RespUntitled, PoolResponse(2)>>

\* The calls a worker thread holds: taken off the queue and not finished.
Held == {k \in 1..Len(futures) : futures[k].state \in {"dequeued", "running"}}

\* The futures in a given state.
InState(st) == {k \in 1..Len(futures) : futures[k].state = st}

\* The image index the k-th executor.submit is given: enumerate(image_files).
submit_index(k) == k - 1

InitPool ==
    /\ responses \in {PoolBatch(n) : n \in 1..MaxPoolImages} \cup {PoolBatchUntitled}
    /\ completion = <<>>
    /\ futures = <<>>
    /\ results = <<>>
    /\ returned = Pending
    /\ SessionIdle

\* The dict comprehension: executor.submit(generate_single_quiz, image_file, i).
Submit ==
    /\ Len(futures) < Len(responses)
    /\ futures' = Append(futures, [index |-> submit_index(Len(futures) + 1),
                                   state |-> "queued"])
    /\ UNCHANGED <<responses, completion, results, returned>>
    /\ UNCHANGED session_vars

\* A worker thread that holds no call takes the oldest queued call off the
\* work queue; the executor has max_workers threads at most.
TakeCall ==
    /\ InState("queued") # {}
    /\ Cardinality(Held) < max_workers(Len(responses))
    /\ LET k == CHOOSE k \in InState("queued") : \A j \in InState("queued") : k <= j
       IN futures' = [futures EXCEPT ![k].state = "dequeued"]
    /\ UNCHANGED <<responses, completion, results, returned>>
    /\ UNCHANGED session_vars

\* The worker that took the call marks its future running and calls
\* generate_single_quiz.
StartCall(k) ==
    /\ futures[k].state = "dequeued"
    /\ futures' = [futures EXCEPT ![k].state = "running"]
    /\ UNCHANGED <<responses, completion, results, returned>>
    /\ UNCHANGED session_vars

\* generate_single_quiz returns in its worker: the future is done.
FinishCall(k) ==
    /\ futures[k].state = "running"
    /\ futures' = [futures EXCEPT ![k].state = "finished"]
    /\ UNCHANGED <<responses, completion, results, returned>>
    /\ UNCHANGED session_vars

\* One turn of the as_completed loop, which starts once every call is
\* submitted: results[image_index] = quiz_data for a finished future.
Collect(k) ==
    /\ Len(futures) = Len(responses)
    /\ futures[k].state = "finished"
    /\ futures' = [futures EXCEPT ![k].state = "collected"]
    /\ results' = collect_result(results, responses, futures[k].index)
    /\ UNCHANGED <<responses, completion, returned>>
    /\ UNCHANGED session_vars

\* A merge that starts as soon as every call is submitted and one result is in.
MergeResultsEarly ==
    /\ returned = Pending
    /\ Len(futures) = Len(responses)
    /\ results # <<>>
    /\ returned' = merge_quizzes(reassemble(results, Len(responses)), Len(responses))
    /\ UNCHANGED <<responses, completion, futures, results>>
    /\ UNCHANGED session_vars

\* After the loop and the executor's shutdown: reassemble and merge.
MergeResults ==
    /\ returned = Pending
    /\ Len(futures) = Len(responses)
    /\ \A k \in 1..Len(futures) : futures[k].state = "collected"
    /\ returned' = merge_quizzes(reassemble(results, Len(responses)), Len(responses))
    /\ UNCHANGED <<responses, completion, futures, results>>
    /\ UNCHANGED session_vars

NextPool ==
    \/ Submit
    \/ TakeCall
    \/ \E k \in 1..Len(futures) : StartCall(k)
    \/ \E k \in 1..Len(futures) : FinishCall(k)
    \/ \E k \in 1..Len(futures) : Collect(k)
    \/ MergeResults

SpecPool == InitPool /\ [][NextPool]_vars

\* The same fan-out with its scheduling.  A worker thread of the executor
\* that holds no call takes the next queued one, a worker that took a call
\* starts it, a call that was started returns or raises, and the main thread
\* goes on submitting: weak fairness of these steps.  The main thread also goes on collecting finished
\* futures and then merging; for these two steps weak fairness is written
\* out as "infinitely often not possible, or infinitely often taken", with
\* the step's own guard (CollectReady, MergeReady) as the condition under
\* which it is possible.
Scheduled ==
    \/ Submit
    \/ TakeCall
    \/ \E k \in 1..Len(futures) : StartCall(k)
    \/ \E k \in 1..Len(futures) : FinishCall(k)

CollectReady ==
    /\ Len(futures) = Len(responses)
    /\ \E k \in 1..Len(futures) : futures[k].state = "finished"

MergeReady ==
    /\ returned = Pending
    /\ Len(futures) = Len(responses)
    /\ \A k \in 1..Len(futures) : futures[k].state = "collected"

PoolFairness ==
    /\ WF_vars(Scheduled)
    /\ ([]<>(~CollectReady) \/ []<><<\E k \in 1..Len(futures) : Collect(k)>>_vars)
    /\ ([]<>(~MergeReady) \/ []<><<MergeResults>>_vars)

SpecPoolFair == InitPool /\ [][NextPool]_vars /\ PoolFairness

(***************************************************************************)
(* The Streamlit session.  Every user interaction runs main() once from   *)
(* the top: the generate section, the navigation row, the current         *)
(* question's display routine and the score tracking.  The session below  *)
(* is st.session_state as a record; the caches map a question id to the   *)
(* cached value.                                                          *)
(***************************************************************************)
Session ==
    [has_quiz |-> has_quiz, quiz_data |-> quiz_data,
     current_question |-> current_question, score |-> score,
     answered_questions |-> answered_questions, options_cache |-> options_cache,
     gap_options_cache |-> gap_options_cache,
     dialogue_parts_cache |-> dialogue_parts_cache, dialogue_order |-> dialogue_order]

\* cache[key] = value
Put(cache, key, value) == (key :> value) @@ cache

\* The outcomes of random.shuffle(list): every arrangement of the list (the
\* empty list for the empty list).
Shuffles(seq) ==
    {[i \in 1..Len(seq) |-> seq[p[i]]] : p \in Permutations(1..Len(seq))}

\* list[:n]
Take(seq, n) == SubSeq(seq, 1, Min(n, Len(seq)))

backup_options ==
    <<"học sinh", "giáo viên", "bạn bè", "gia dình", "thời gian", "từ khác">>

RECURSIVE BackupLoop(_, _, _)
\* for option in backup_options: stop at three, skip what the question has.
BackupLoop(backup, correct, wrong_meanings) ==
    IF backup = <<>> \/ Len(wrong_meanings) >= MinWrong THEN wrong_meanings
    ELSE LET option == Head(backup)
         IN IF ~InSeq(Lower(option), LowerAll(wrong_meanings))
               /\ Lower(option) # Lower(correct)
            THEN BackupLoop(Tail(backup), correct, Append(wrong_meanings, option))
            ELSE BackupLoop(Tail(backup), correct, wrong_meanings)

\* What the widgets hold when the user has touched nothing.
NoInput == [pinyin |-> "", meaning |-> "", answer |-> None, answers |-> <<>>, part |-> 0]

\* A first render that leaves the question's wrong_meanings as they are.
without_backup(question) == question

\* The question as display_pinyin_meaning_question leaves it on its first
\* render: wrong_meanings topped up from backup_options.
with_backup(question) ==
    IF Len(question.wrong_meanings) < MinWrong
    THEN [question EXCEPT !.wrong_meanings = BackupLoop(backup_options, question.meaning, @)]
    ELSE question

\* [question.meaning] + question.wrong_meanings[:3]
meaning_options(question) == <<question.meaning>> \o Take(question.wrong_meanings, MinWrong)

\* The list the first render of a question shuffles (none for reading).
shuffle_input(question) ==
    CASE question.type = "gap_filling" -> question.options
      [] question.type = "dialogue_arrangement" ->
            [i \in 1..Len(question.dialogue_parts) |-> <<i - 1, question.dialogue_parts[i]>>]
      [] question.type = "reading_comprehension" -> <<>>
      [] OTHER -> meaning_options(with_backup(question))

\* Whether rendering the question now would compute and cache a shuffle.
first_render(s, question) ==
    CASE question.type = "gap_filling" -> question.id \notin DOMAIN s.gap_options_cache
      [] question.type = "dialogue_arrangement" ->
            question.id \notin DOMAIN s.dialogue_parts_cache
      [] question.type = "reading_comprehension" -> FALSE
      [] OTHER -> question.id \notin DOMAIN s.options_cache

\* display_pinyin_meaning_question; button is "check" when its check button
\* was pressed in this run.
display_pinyin_meaning_question(s, question, button, inp, shuffled) ==
    LET first == question.id \notin DOMAIN s.options_cache
        shown == IF first THEN with_backup(question) ELSE question
        pinyin_correct == Lower(Strip(inp.pinyin)) = Lower(Strip(question.pinyin))
        meaning_correct == inp.meaning = question.meaning
    IN [s |-> [s EXCEPT
                 !.quiz_data.questions[s.current_question + 1] = shown,
                 !.options_cache = IF first THEN Put(@, question.id, shuffled) ELSE @],
        correct |-> (button = "check" /\ pinyin_correct /\ meaning_correct),
        user_answers |-> <<>>,
        sub_correct |-> <<>>,
        rerun |-> FALSE]

\* display_gap_filling_question
display_gap_filling_question(s, question, button, inp, shuffled) ==
    [s |-> [s EXCEPT !.gap_options_cache =
                        IF question.id \notin DOMAIN @
                        THEN Put(@, question.id, shuffled) ELSE @],
     correct |-> (button = "check" /\ inp.answer = Some(question.correct_answer)),
     user_answers |-> <<>>,
     sub_correct |-> <<>>,
     rerun |-> FALSE]

\* The parts not yet placed: the cached parts whose index is not in the order.
remaining_parts(parts, order) ==
    SelectSeq(parts, LAMBDA part : ~InSeq(part[1], order))

\* The dialogue caches after the "prepare dialogue parts" block.
prepared(s, question, shuffled) ==
    IF question.id \notin DOMAIN s.dialogue_parts_cache
    THEN [s EXCEPT !.dialogue_parts_cache = Put(@, question.id, shuffled),
                   !.dialogue_order = Put(@, question.id, <<>>)]
    ELSE s

\* A comparison that accepts any order the correct order starts with.
orders_equal_prefix(user_order, correct_order) ==
    /\ Len(user_order) <= Len(correct_order)
    /\ user_order = SubSeq(correct_order, 1, Len(user_order))

\* user_order == question.correct_order
orders_equal(user_order, correct_order) == user_order = correct_order

\* display_dialogue_arrangement_question.  "add" appends the chosen remaining
\* part's index and "reset" empties the order; both call st.rerun(), which
\* ends the run there, before the check button and the score tracking.
display_dialogue_arrangement_question(s, question, button, inp, shuffled) ==
    LET p == prepared(s, question, shuffled)
        order == p.dialogue_order[question.id]
        remaining == remaining_parts(p.dialogue_parts_cache[question.id], order)
        added == button = "add" /\ inp.part \in 1..Len(remaining)
        after == CASE added -> [p EXCEPT !.dialogue_order[question.id] =
                                            Append(@, remaining[inp.part][1])]
                   [] button = "reset" -> [p EXCEPT !.dialogue_order[question.id] = <<>>]
                   [] OTHER -> p
    IN [s |-> after,
        correct |-> (button = "check" /\ orders_equal(order, question.correct_order)),
        user_answers |-> <<>>,
        sub_correct |-> <<>>,
        rerun |-> (added \/ button = "reset")]

\* st.radio over a sub-question's options: the first option until the user
\* picks another, None when there are no options.
default_answers(question) ==
    [i \in 1..Len(question.subquestions) |->
        IF i <= Len(question.suboptions) /\ question.suboptions[i] # <<>>
        THEN Some(question.suboptions[i][1]) ELSE None]

\* The verdict per zip(user_answers, question.subanswers) pair.
check_subanswers(answers, subanswers) ==
    [i \in 1..Min(Len(answers), Len(subanswers)) |-> answers[i] = Some(subanswers[i])]

\* display_reading_comprehension_question; answers are the radios' values.
display_reading_comprehension_question(s, question, button, answers) ==
    LET verdicts == check_subanswers(answers, question.subanswers)
    IN [s |-> s,
        correct |-> IF button = "check"
                    THEN \A i \in 1..Len(verdicts) : verdicts[i]
                    ELSE TRUE,
        user_answers |-> answers,
        sub_correct |-> IF button = "check" THEN verdicts ELSE <<>>,
        rerun |-> FALSE]

\* display_question: dispatch on the type, pinyin+meaning by default.
display_question(s, question, button, inp, shuffled) ==
    CASE question.type = "chinese_to_pinyin_meaning" ->
            display_pinyin_meaning_question(s, question, button, inp, shuffled)
      [] question.type = "gap_filling" ->
            display_gap_filling_question(s, question, button, inp, shuffled)
      [] question.type = "dialogue_arrangement" ->
            display_dialogue_arrangement_question(s, question, button, inp, shuffled)
      [] question.type = "reading_comprehension" ->
            display_reading_comprehension_question(s, question, button, inp.answers)
      [] OTHER -> display_pinyin_meaning_question(s, question, button, inp, shuffled)

\* st.selectbox("Chọn câu hỏi:", question_options, index=...): the widget has
\* no key, so it is the same widget as in the last run only if its options
\* and index are the same; then it returns the value it holds, else the
\* option at index.  Values are 0-based positions in question_options.
selectbox_value(w, num_options, index) ==
    IF w # NoWidget /\ w.options = num_options /\ w.index = index
    THEN w.value ELSE index

\* A navigation row whose next button wraps around to the first question.
navigate_wrapping(s, w, button) ==
    LET num == Len(s.quiz_data.questions)
    IN IF button = "prev" /\ s.current_question > 0
       THEN [s |-> [s EXCEPT !.current_question = @ - 1], w |-> NoWidget, rerun |-> TRUE]
       ELSE LET selected == selectbox_value(w, num, s.current_question)
                rendered == [options |-> num, index |-> s.current_question,
                             value |-> selected]
            IN IF button = "next"
               THEN [s |-> [s EXCEPT !.current_question =
                                        IF selected < num - 1 THEN selected + 1 ELSE 0],
                     w |-> rendered, rerun |-> TRUE]
               ELSE [s |-> [s EXCEPT !.current_question = selected],
                     w |-> rendered, rerun |-> FALSE]

\* The navigation row of one run: the previous button (which ends the run with
\* st.rerun() before the selectbox is rendered), the selectbox, whose value
\* becomes current_question, and the next button (which ends the run with
\* st.rerun() after it).  w is the selectbox's state at the start of the run;
\* a widget that is not rendered in a run loses its state.
navigate(s, w, button) ==
    LET num == Len(s.quiz_data.questions)
    IN IF button = "prev" /\ s.current_question > 0
       THEN [s |-> [s EXCEPT !.current_question = @ - 1], w |-> NoWidget, rerun |-> TRUE]
       ELSE LET selected == selectbox_value(w, num, s.current_question)
                rendered == [options |-> num, index |-> s.current_question,
                             value |-> selected]
            IN IF button = "next" /\ selected < num - 1
               THEN [s |-> [s EXCEPT !.current_question = selected + 1],
                     w |-> rendered, rerun |-> TRUE]
               ELSE [s |-> [s EXCEPT !.current_question = selected],
                     w |-> rendered, rerun |-> FALSE]

\* A score tracking that counts every correct result.
track_score_every_time(s, correct) ==
    IF correct
    THEN [s EXCEPT !.score = @ + 1,
                   !.answered_questions = @ \cup {s.current_question}]
    ELSE s

\* The score tracking after display_question.
track_score(s, correct) ==
    IF correct /\ s.current_question \notin s.answered_questions
    THEN [s EXCEPT !.score = @ + 1,
                   !.answered_questions = @ \cup {s.current_question}]
    ELSE s

\* The question at the current index.
current(s) == s.quiz_data.questions[s.current_question + 1]

\* The radios of the sub-questions keep their values from one run to the next
\* while the same question (by widget key, that is by id) stays on display.
widget_answers(before, question, inp) ==
    IF question.type # "reading_comprehension" THEN <<>>
    ELSE IF inp.answers # <<>> THEN inp.answers
    ELSE IF /\ before.has_quiz
            /\ current(before).id = question.id
            /\ current(before).type = "reading_comprehension"
            /\ Len(user_answers) = Len(question.subquestions)
         THEN user_answers
    ELSE default_answers(question)

\* "Display quiz if available": navigation, display and score tracking of one
\* run, from the session s the generate section left and the selectbox state
\* w; before is the session at the start of the run.  A run that st.rerun()
\* ended stops where it was called: nothing after it is rendered or counted.
show_quiz(before, s, w, button, inp, shuffled) ==
    LET n == navigate(s, w, button)
        stopped == [s |-> n.s, w |-> n.w, rerun |-> TRUE, correct |-> FALSE,
                    user_answers |-> <<>>, sub_correct |-> <<>>]
    IN IF n.rerun THEN stopped
       ELSE LET question == current(n.s)
                d == display_question(n.s, question, button,
                                      [inp EXCEPT !.answers =
                                          widget_answers(before, question, inp)],
                                      shuffled)
            IN IF d.rerun THEN [stopped EXCEPT !.s = d.s]
               ELSE [s |-> track_score(d.s, d.correct), w |-> n.w, rerun |-> FALSE,
                     correct |-> d.correct, user_answers |-> d.user_answers,
                     sub_correct |-> d.sub_correct]

\* A successful generate that keeps the counted indices of the previous quiz.
store_quiz_keeping_answered(s, quiz) ==
    [s EXCEPT !.has_quiz = TRUE,
              !.quiz_data = [title |-> quiz.title, questions |-> quiz.questions],
              !.current_question = 0,
              !.score = 0,
              !.options_cache = <<>>]

\* The new session on a successful generate: quiz and counters replaced, the
\* keys starting with "options_" deleted.
store_quiz(s, quiz) ==
    [s EXCEPT !.has_quiz = TRUE,
              !.quiz_data = [title |-> quiz.title, questions |-> quiz.questions],
              !.current_question = 0,
              !.score = 0,
              !.answered_questions = {},
              !.options_cache = <<>>]

\* A generate section that resets the counters before it knows the outcome.
after_generate_resetting(s, result) ==
    IF result.kind = "quiz" THEN store_quiz(s, result)
    ELSE [s EXCEPT !.current_question = 0, !.score = 0, !.answered_questions = {}]

\* The session the generate section leaves, given what generation returned.
after_generate(s, result) ==
    IF result.kind = "quiz" THEN store_quiz(s, result) ELSE s

\* The message the generate section shows: st.success with the numbers of
\* images and questions, st.error for None, st.error with str(e).
generate_banner(result, num_images) ==
    CASE result.kind = "quiz" ->
            "Quiz dã dược tạo từ " \o ToString(num_images) \o " ảnh với tổng cộng "
                \o ToString(Len(result.questions)) \o " câu hỏi!"
      [] result.kind = "None" -> "Không thể tạo quiz từ các ảnh dã tải!"
      [] OTHER -> "Lỗi khi tạo quiz: " \o result.message

\* The shuffles a run may draw for the question it is about to render.
ShufflesFor(s, w, button) ==
    LET n == navigate(s, w, button)
    IN IF ~n.rerun /\ first_render(n.s, current(n.s))
       THEN Shuffles(shuffle_input(current(n.s))) ELSE {<<>>}

\* The variables after a run that reached the quiz display.
Shown(d, ev, ret, num_images) ==
    /\ has_quiz' = d.s.has_quiz
    /\ quiz_data' = d.s.quiz_data
    /\ current_question' = d.s.current_question
    /\ score' = d.s.score
    /\ answered_questions' = d.s.answered_questions
    /\ options_cache' = d.s.options_cache
    /\ gap_options_cache' = d.s.gap_options_cache
    /\ dialogue_parts_cache' = d.s.dialogue_parts_cache
    /\ dialogue_order' = d.s.dialogue_order
    /\ is_correct' = d.correct
    /\ user_answers' = d.user_answers
    /\ sub_correct' = d.sub_correct
    /\ selectbox' = d.w
    /\ rerun' = d.rerun
    /\ event' = [kind |-> ev]
    /\ returned' = ret
    /\ banner' = IF ret = Pending THEN "" ELSE generate_banner(ret, num_images)
    /\ UNCHANGED <<responses, completion, futures, results>>

\* A run whose script ends before the quiz display (no quiz in the session,
\* or the return after "quiz_data is None"): no widget of the display is
\* rendered.
NotShown(s, ev, ret, num_images) ==
    /\ has_quiz' = s.has_quiz
    /\ quiz_data' = s.quiz_data
    /\ current_question' = s.current_question
    /\ score' = s.score
    /\ answered_questions' = s.answered_questions
    /\ options_cache' = s.options_cache
    /\ gap_options_cache' = s.gap_options_cache
    /\ dialogue_parts_cache' = s.dialogue_parts_cache
    /\ dialogue_order' = s.dialogue_order
    /\ is_correct' = FALSE
    /\ user_answers' = <<>>
    /\ sub_correct' = <<>>
    /\ selectbox' = NoWidget
    /\ rerun' = FALSE
    /\ event' = [kind |-> ev]
    /\ returned' = ret
    /\ banner' = generate_banner(ret, num_images)
    /\ UNCHANGED <<responses, completion, futures, results>>

(***************************************************************************)
(* The uploads of the session specifications.  UIBatches: pinyin and      *)
(* reading questions, failed calls and an untitled quiz.  DialogueBatches: *)
(* one image with a dialogue and a gap-filling question.  OptionBatches:   *)
(* a pinyin question with repeated and correct entries among its wrong     *)
(* meanings next to a gap-filling question, and gap-filling questions      *)
(* whose wrong meanings use up the whole fallback pool, followed by a      *)
(* failed call or by a question of a type the display does not know.      *)
(***************************************************************************)
RespCat == ApiJson(Some("HSK 4"), <<PinyinCat>>)

RespReading == ApiJson(Some("Doc hiểu"), <<ReadingShop>>)

\* The uploads of SpecUI: an untitled quiz, a reading question, a reading
\* and a pinyin question, a failed call with an untitled quiz, and three
\* images of which the middle one fails.
UIBatches ==
    {<<RespUntitled>>, <<RespReading>>, <<RespReading, RespCat>>,
     <<RespTimeout, RespUntitled>>, <<RespReading, RespTimeout, RespReading>>}

RespDialogueGap == ApiJson(Some("Hội thoại"), <<DialogueHello, GapTime>>)

RespGapDialogue == ApiJson(Some("Diền từ"), <<GapTime, DialogueHello>>)

DialogueBatches == {<<RespDialogueGap>>, <<RespGapDialogue>>}

GapPlace ==
    [GapTime EXCEPT !.chinese_word = "shangdian", !.pinyin = "shangdiàn",
                    !.meaning = "cửa hàng",
                    !.options = <<"shangdian", "xuexiao">>,
                    !.correct_answer = "shangdian"]

RespGreedy ==
    ApiJson(Some("HSK 3"), <<[GapTime EXCEPT !.wrong_meanings = common_wrong_options]>>)

RespGreedyPlace ==
    ApiJson(Some("HSK 2"), <<[GapPlace EXCEPT !.wrong_meanings = common_wrong_options]>>)

RespMatching ==
    ApiJson(Some("Nối từ"),
            <<[PinyinCat EXCEPT !.type = "matching",
                                !.wrong_meanings = <<"Từ khác", "Con Mèo">>]>>)

OptionBatches ==
    {<<RespVocabulary>>, <<RespGreedy, RespTimeout>>, <<RespGreedyPlace, RespMatching>>}

\* generate_quiz_from_images on each of these uploads, for each order in
\* which its calls can complete.
Generated ==
    [batch \in UIBatches \cup DialogueBatches \cup OptionBatches |->
        [order \in CompletionOrders(Len(batch)) |->
            generate_quiz_from_images(batch, order)]]

\* The "Tao Quiz" button on a batch of uploaded images whose calls complete
\* in the given order.
Generate(batch, order) ==
    /\ ~rerun
    /\ LET result == Generated[batch][order]
           s == after_generate(Session, result)
       IN IF result.kind = "None" \/ ~s.has_quiz
          THEN NotShown(s, "generate", result, Len(batch))
          ELSE \E shuffled \in ShufflesFor(s, selectbox, "generate") :
                  Shown(show_quiz(Session, s, selectbox, "generate", NoInput, shuffled),
                        "generate", result, Len(batch))

\* A run with a quiz in the session, the given button pressed and the
\* selectbox holding w.
Interaction(ev, button, w, inp) ==
    /\ has_quiz
    /\ ~rerun
    /\ \E shuffled \in ShufflesFor(Session, w, button) :
          Shown(show_quiz(Session, Session, w, button, inp, shuffled), ev, Pending, 0)

\* The run that Streamlit starts after st.rerun(): no button is pressed.
Rerun ==
    /\ has_quiz
    /\ rerun
    /\ \E shuffled \in ShufflesFor(Session, selectbox, "none") :
          Shown(show_quiz(Session, Session, selectbox, "none", NoInput, shuffled),
                "rerun", Pending, 0)

PressPrev == Interaction("prev", "prev", selectbox, NoInput)

PressNext == Interaction("next", "next", selectbox, NoInput)

\* The selectbox's options: one per question of the session's quiz.
QuestionIndices == 0..(Len(quiz_data.questions) - 1)

\* The user picks another option of the selectbox on the page.
Select(j) ==
    /\ has_quiz
    /\ selectbox # NoWidget
    /\ j \in 0..(selectbox.options - 1)
    /\ j # selectbox.value
    /\ Interaction("select", "none", [selectbox EXCEPT !.value = j], NoInput)

\* Any other widget change (typing the pinyin, picking a radio option of a
\* pinyin or gap question, the download button): a run with no button.
Rerender == Interaction("rerender", "none", selectbox, NoInput)

\* The pinyin answers the user may type.
TypedPinyin == {" Xuésheng ", "mao", "N/A"}

\* The user's check of a question shown by the pinyin+meaning routine.
CheckPinyin ==
    /\ has_quiz
    /\ current(Session).type \notin {"gap_filling", "dialogue_arrangement",
                                     "reading_comprehension"}
    /\ current(Session).id \in DOMAIN options_cache
    /\ \E typed \in TypedPinyin :
       \E k \in 1..Len(options_cache[current(Session).id]) :
          Interaction("check", "check", selectbox,
                      [NoInput EXCEPT !.pinyin = typed,
                                      !.meaning = options_cache[current(Session).id][k]])

\* The user's check of a gap-filling question, with one of the shown options.
CheckGap ==
    /\ has_quiz
    /\ current(Session).type = "gap_filling"
    /\ current(Session).id \in DOMAIN gap_options_cache
    /\ \E answer \in {None} \cup
                     {Some(gap_options_cache[current(Session).id][k]) :
                        k \in 1..Len(gap_options_cache[current(Session).id])} :
          /\ (answer = None) = (gap_options_cache[current(Session).id] = <<>>)
          /\ Interaction("check", "check", selectbox,
                         [NoInput EXCEPT !.answer = answer])

\* The user's check of a dialogue question with the order built so far.
CheckDialogue ==
    /\ has_quiz
    /\ current(Session).type = "dialogue_arrangement"
    /\ Interaction("check", "check", selectbox, NoInput)

\* The add buttons on display: one per part of the current dialogue.
PartChoices ==
    IF has_quiz /\ current(Session).type = "dialogue_arrangement"
    THEN 1..Len(current(Session).dialogue_parts) ELSE {}

\* "Them phan nay" on the i-th remaining part.
AddPart(i) ==
    /\ has_quiz
    /\ current(Session).type = "dialogue_arrangement"
    /\ current(Session).id \in DOMAIN dialogue_parts_cache
    /\ i \in 1..Len(remaining_parts(dialogue_parts_cache[current(Session).id],
                                    dialogue_order[current(Session).id]))
    /\ Interaction("add", "add", selectbox, [NoInput EXCEPT !.part = i])

\* The dialogue's "Reset" button.
ResetOrder ==
    /\ has_quiz
    /\ current(Session).type = "dialogue_arrangement"
    /\ Interaction("reset", "reset", selectbox, NoInput)

\* The values the sub-question radios can be set to.
AnswerChoices(question) ==
    {a \in [1..Len(question.subquestions) ->
               {None} \cup UNION {{Some(question.suboptions[i][k]) :
                                      k \in 1..Len(question.suboptions[i])} :
                                  i \in 1..Len(question.suboptions)}] :
        \A i \in 1..Len(question.subquestions) :
            IF i <= Len(question.suboptions) /\ question.suboptions[i] # <<>>
            THEN \E k \in 1..Len(question.suboptions[i]) :
                    a[i] = Some(question.suboptions[i][k])
            ELSE a[i] = None}

\* The user picks options of a reading question's sub-questions.
ChooseAnswers ==
    /\ has_quiz
    /\ current(Session).type = "reading_comprehension"
    /\ \E answers \in AnswerChoices(current(Session)) :
          /\ answers # user_answers
          /\ Interaction("choose", "none", selectbox,
                         [NoInput EXCEPT !.answers = answers])

\* The reading question's check button, on the radios' current values.
CheckReading ==
    /\ has_quiz
    /\ current(Session).type = "reading_comprehension"
    /\ Interaction("check", "check", selectbox, NoInput)

(***************************************************************************)
(* SpecUI: sessions over the uploads UIBatches.  SpecDialogue: sessions    *)
(* over the uploads DialogueBatches.                                       *)
(***************************************************************************)
InitUI ==
    /\ responses = <<>>
    /\ completion = <<>>
    /\ futures = <<>>
    /\ results = <<>>
    /\ returned = Pending
    /\ SessionIdle

NextUI ==
    \/ \E batch \in UIBatches : \E order \in CompletionOrders(Len(batch)) :
          Generate(batch, order)
    \/ PressPrev
    \/ PressNext
    \/ Rerun
    \/ \E j \in QuestionIndices : Select(j)
    \/ Rerender
    \/ CheckPinyin
    \/ ChooseAnswers
    \/ CheckReading

SpecUI == InitUI /\ [][NextUI]_vars

NextDialogue ==
    \/ \E batch \in DialogueBatches : \E order \in CompletionOrders(Len(batch)) :
          Generate(batch, order)
    \/ PressPrev
    \/ PressNext
    \/ Rerun
    \/ \E j \in QuestionIndices : Select(j)
    \/ Rerender
    \/ CheckGap
    \/ CheckDialogue
    \/ \E i \in PartChoices : AddPart(i)
    \/ ResetOrder

SpecDialogue == InitUI /\ [][NextDialogue]_vars

(***************************************************************************)
(* SpecOptions: sessions over the uploads OptionBatches.                   *)
(***************************************************************************)
NextOptions ==
    \/ \E batch \in OptionBatches : \E order \in CompletionOrders(Len(batch)) :
          Generate(batch, order)
    \/ PressPrev
    \/ PressNext
    \/ Rerun
    \/ \E j \in QuestionIndices : Select(j)
    \/ Rerender
    \/ CheckPinyin
    \/ CheckGap

SpecOptions == InitUI /\ [][NextOptions]_vars

(***************************************************************************)
(* Claims about the merge (SpecMerge).                                    *)
(***************************************************************************)
\* At least three wrong meanings, none equal to the correct meaning and no
\* two equal to each other, all compared case-insensitively.
WrongMeaningsSound(q) ==
    /\ Len(q.wrong_meanings) >= 3
    /\ \A i \in 1..Len(q.wrong_meanings) : Lower(q.wrong_meanings[i]) # Lower(q.meaning)
    /\ \A i, j \in 1..Len(q.wrong_meanings) :
          i # j => Lower(q.wrong_meanings[i]) # Lower(q.wrong_meanings[j])

\* C1: in every merged quiz that generate_quiz_from_images returns, every
\* chinese_to_pinyin_meaning question has at least 3 wrong meanings, none
\* case-insensitively equal to its correct meaning and no two
\* case-insensitively equal, also when the fallback pool is exhausted.
C1_WrongMeaningsSound ==
    returned.kind = "quiz" =>
        \A i \in 1..Len(returned.questions) :
            returned.questions[i].type = PinyinType
                => WrongMeaningsSound(returned.questions[i])

\* C1 witness: a returned quiz in which the fallback pool ran out (a pinyin
\* question was topped up with generic fillers) and which holds the question
\* whose raw list repeated an entry and named its own correct meaning.
C1_Witness ==
    /\ returned.kind = "quiz"
    /\ \E i \in 1..Len(returned.questions) :
          /\ returned.questions[i].type = PinyinType
          /\ InSeq("nghia khác", returned.questions[i].wrong_meanings)
    /\ \E i \in 1..Len(returned.questions) :
          /\ returned.questions[i].chinese_word = "xuesheng"
          /\ InSeq("Từ khác", returned.questions[i].wrong_meanings)

\* The batch is one image whose extraction call raised, and generation ended.
OneImageThrows ==
    /\ Len(responses) = 1
    /\ create(responses[1]).raised
    /\ returned # Pending

\* C5 as stated: one image whose extraction call throws gives a quiz of
\* exactly one question, of type "error", with an empty wrong_meanings list.
C5_ErrorQuestionNoWrongOptions ==
    OneImageThrows =>
        /\ returned.kind = "quiz"
        /\ Len(returned.questions) = 1
        /\ returned.questions[1].type = "error"
        /\ returned.questions[1].wrong_meanings = <<>>

\* C5 amended: one image whose extraction call throws gives a quiz of exactly
\* one question, of type "error", whose wrong_meanings the merge has filled
\* with the first three entries of the fallback pool.
C5_ErrorQuestionBackfilled ==
    OneImageThrows =>
        /\ returned.kind = "quiz"
        /\ Len(returned.questions) = 1
        /\ returned.questions[1].type = "error"
        /\ returned.questions[1].wrong_meanings = SubSeq(common_wrong_options, 1, 3)

\* C5 witness: a one-image batch whose call raised came back as a quiz.
C5_Witness ==
    /\ OneImageThrows
    /\ returned.kind = "quiz"
    /\ responses[1].kind = "exception"

(***************************************************************************)
(* Claims about the fan-out (SpecPool).                                   *)
(***************************************************************************)
\* What each image contributes, image by image: the questions of the quiz its
\* extraction call returned.
Contributions(batch) ==
    Flatten([i \in 1..Len(batch) |-> generate_single_quiz(batch[i], i - 1).quiz_data])

\* The same question up to what the merge rewrites (id and wrong_meanings).
SameQuestion(a, b) ==
    [a EXCEPT !.id = 0, !.wrong_meanings = <<>>]
        = [b EXCEPT !.id = 0, !.wrong_meanings = <<>>]

\* C2: whatever the order in which the calls complete and are collected, the
\* combined quiz holds the images' questions in image order (each sub-quiz's
\* own order kept) and its ids are 1..total_count, ascending without gaps.
C2_ImageOrderAndIds ==
    returned.kind = "quiz" =>
        LET src == Contributions(responses)
        IN /\ Len(returned.questions) = Len(src)
           /\ \A k \in 1..Len(returned.questions) :
                 /\ returned.questions[k].id = k
                 /\ SameQuestion(returned.questions[k], src[k])

\* C2 witness: a quiz merged from at least three images whose results were
\* stored out of image order (the last image's first, the first image's last).
C2_Witness ==
    /\ returned.kind = "quiz"
    /\ Len(responses) >= 3
    /\ results[1][1] = Len(responses) - 1
    /\ results[Len(results)][1] = 0
    /\ \E k \in 1..Len(returned.questions) : returned.questions[k].type = "error"

\* C10: at every moment the calls in flight (started, not finished) number at
\* most min(6, N), also when the calls a worker has taken and not yet started
\* are counted with them, and every image has at most one call submitted for
\* it, exactly one once all are submitted.
C10_BoundedInFlight ==
    /\ Cardinality(InState("running")) <= Min(6, Len(responses))
    /\ Cardinality(Held) <= Min(6, Len(responses))
    /\ \A j, k \in 1..Len(futures) : j # k => futures[j].index # futures[k].index
    /\ \A k \in 1..Len(futures) : futures[k].index \in 0..(Len(responses) - 1)
    /\ Len(futures) <= Len(responses)
    /\ returned # Pending => Len(futures) = Len(responses)

\* C10 witness: more than six images, six calls in flight and one waiting in
\* the queue, the sixth call running before the first has finished.
C10_Witness ==
    /\ Len(responses) > 6
    /\ Cardinality(InState("running")) = 6
    /\ InState("queued") # {}
    /\ InState("finished") = {}

\* C4 as stated: a finished generation returned None exactly for the empty
\* image list, and otherwise a quiz (never an exception) holding, image by
\* image, one "error" placeholder carrying the reason for each failed call and
\* all the questions of each successful call.
C4_FailuresNeverAbort ==
    returned # Pending =>
        /\ (returned.kind = "None") = (responses = <<>>)
        /\ responses # <<>> =>
              /\ returned.kind = "quiz"
              /\ LET src == Contributions(responses)
                 IN /\ Len(returned.questions) = Len(src)
                    /\ \A k \in 1..Len(src) : SameQuestion(returned.questions[k], src[k])
              /\ \A i \in 1..Len(responses) :
                    create(responses[i]).raised =>
                        LET placeholder ==
                                generate_single_quiz(responses[i], i - 1).quiz_data.questions
                        IN /\ Len(placeholder) = 1
                           /\ placeholder[1].type = "error"
                           /\ placeholder[1].question =
                                 Strip("Lỗi khi tạo quiz từ ảnh " \o ToString(i) \o ": "
                                          \o create(responses[i]).reason)

\* C14 as stated: in the merged quiz no wrong meaning of one question is
\* case-insensitively equal to a wrong meaning of another question, whatever
\* the batch size.
C14_NoSharedWrongMeaning ==
    returned.kind = "quiz" =>
        \A j, k \in 1..Len(returned.questions) :
            j # k =>
                \A a \in 1..Len(returned.questions[j].wrong_meanings) :
                    ~InSeq(Lower(returned.questions[j].wrong_meanings[a]),
                           LowerAll(returned.questions[k].wrong_meanings))

\* The image indices that have an entry in the result map.
ResultKeys == {results[k][1] : k \in 1..Len(results)}

\* The futures whose result has been read by the as_completed loop.
Collected == InState("collected")

\* C17: the result map gets one entry per image index, each written once (an
\* entry is never overwritten, and the entries are exactly the collected
\* calls' indices); the merge happens only when no call is queued, held by a
\* worker or uncollected and every image has its entry.
C17_OneEntryPerImageBeforeMerge ==
    /\ [](/\ Cardinality(ResultKeys) = Len(results)
          /\ ResultKeys = {futures[k].index : k \in Collected}
          /\ ResultKeys \subseteq 0..(Len(responses) - 1))
    /\ [][results' # results =>
            \E i \in 0..(Len(responses) - 1) :
                /\ i \notin ResultKeys
                /\ Len(results') = Len(results) + 1
                /\ SubSeq(results', 1, Len(results)) = results
                /\ results'[Len(results')][1] = i]_vars
    /\ [][returned' # returned =>
            /\ InState("queued") = {} /\ Held = {} /\ InState("finished") = {}
            /\ Len(futures) = Len(responses)
            /\ ResultKeys = 0..(Len(responses) - 1)
            /\ results' = results]_vars

\* C17 witness: a batch of more than six images merged into a quiz, whose
\* first stored result is the last image's and whose last is the first's.
C17_Witness ==
    /\ returned.kind = "quiz"
    /\ Len(responses) > 6
    /\ Len(results) = Len(responses)
    /\ results[1][1] = Len(responses) - 1
    /\ results[Len(results)][1] = 0

\* Every image's call was submitted, started, finished and collected.
AllCallsDone ==
    /\ Len(futures) = Len(responses)
    /\ \A i \in 0..(Len(responses) - 1) :
          \E k \in 1..Len(futures) :
              futures[k].index = i /\ futures[k].state = "collected"

\* C18 as stated: with the calls returning or raising, every image's call is
\* started, finished and collected, none is left out, and
\* generate_quiz_from_images returns (a quiz, the batch not being empty).
C18_BatchRunsToCompletion == <>(AllCallsDone /\ returned.kind = "quiz")

(***************************************************************************)
(* Claims about construction (SpecSchema).                                *)
(***************************************************************************)
\* Empty or whitespace-only.
Blank(v) == \A i \in 1..Len(v) : SubSeq(v, i, i) \in Whitespace

\* The one image's call is done and its quiz is stored.
Constructed == Len(responses) = 1 /\ results # <<>>

\* The stored quiz is the placeholder of a failed construction.
Rejected == results[1][2].questions # <<>> /\ results[1][2].questions[1].type = "error"

\* C11 as stated: a JSON answer with an empty question list, or with a question
\* whose question, chinese_word, pinyin or meaning is empty or whitespace-only,
\* fails to construct, and every quiz that was constructed has at least one
\* question.
C11_ConstructedQuizHasQuestions ==
    Constructed =>
        /\ ("questions" \in DOMAIN responses[1] /\
               (\/ responses[1].questions = <<>>
                \/ \E k \in 1..Len(responses[1].questions) :
                      LET raw == responses[1].questions[k]
                      IN Blank(raw.question) \/ Blank(raw.chinese_word)
                            \/ Blank(raw.pinyin) \/ Blank(raw.meaning)))
              => Rejected
        /\ Len(results[1][2].questions) >= 1

\* C13 as stated: every non-error question of a returned quiz has a non-empty
\* prompt and a non-empty correct answer for its type: correct_answer for
\* gap_filling, correct_order for dialogue_arrangement, subanswers for
\* reading_comprehension, pinyin and meaning for chinese_to_pinyin_meaning.
C13_QuestionsHaveAnswers ==
    returned.kind = "quiz" =>
        \A k \in 1..Len(returned.questions) :
            LET question == returned.questions[k]
            IN question.type # "error" =>
                  /\ question.question # ""
                  /\ question.type = "gap_filling" => question.correct_answer # ""
                  /\ question.type = "dialogue_arrangement" => question.correct_order # <<>>
                  /\ question.type = "reading_comprehension" => question.subanswers # <<>>
                  /\ question.type = PinyinType =>
                        (question.pinyin # "" /\ question.meaning # "")

(***************************************************************************)
(* Claims about the session (SpecUI, SpecDialogue).                       *)
(***************************************************************************)
\* The latest run rendered the current question (st.rerun() did not end it
\* before the display).
Displayed == has_quiz /\ ~rerun

\* The step is a run of main() that did not store a new quiz.
SameQuizStep == has_quiz /\ ~(event'.kind = "generate" /\ returned'.kind = "quiz")

\* C3: within one quiz, whatever the navigation, re-render and check runs, a
\* run adds at most 1 to the score, only for a current question not yet in
\* answered_questions, which it then records; so the score is the number of
\* counted indices and a correct check of a counted question adds nothing.
C3_ScoreOncePerQuestion ==
    /\ [](/\ score = Cardinality(answered_questions)
          /\ answered_questions \subseteq QuestionIndices)
    /\ [][SameQuizStep =>
            /\ score' \in {score, score + 1}
            /\ current_question' \in answered_questions => score' = score
            /\ score' = score + 1 =>
                  answered_questions' = answered_questions \cup {current_question'}
            /\ score' = score => answered_questions' = answered_questions]_vars

\* C3 witness: a correct check of a pinyin question that is counted, in a quiz
\* of two questions (the state a repeated correct check starts from and ends in).
C3_Witness ==
    /\ has_quiz
    /\ event.kind = "check"
    /\ is_correct
    /\ current(Session).type = PinyinType
    /\ current_question \in answered_questions
    /\ score = 1
    /\ Len(quiz_data.questions) = 2

\* C6: a generate run that produced no quiz shows an error and leaves
\* quiz_data, current_question, score and answered_questions (and whether
\* there is a quiz) exactly as they were.
C6_FailedGenerateKeepsSession ==
    [][(event'.kind = "generate" /\ returned'.kind # "quiz") =>
          /\ banner' = IF returned'.kind = "None"
                       THEN "Không thể tạo quiz từ các ảnh dã tải!"
                       ELSE "Lỗi khi tạo quiz: " \o returned'.message
          /\ has_quiz' = has_quiz
          /\ quiz_data' = quiz_data
          /\ current_question' = current_question
          /\ score' = score
          /\ answered_questions' = answered_questions]_vars

\* C6 witness: generation raised while the session held a quiz with a counted
\* question and the second question on display.
C6_Witness ==
    /\ event.kind = "generate"
    /\ returned.kind = "raised"
    /\ has_quiz
    /\ score > 0
    /\ current_question = 1

\* C7 as stated: whenever a reading-comprehension question is on display, the
\* routine's result is True exactly when every sub-question's answer equals
\* the stored sub-answer.
C7_ReadingCorrectIffAllMatch ==
    (Displayed /\ current(Session).type = "reading_comprehension") =>
        (is_correct <=>
            \A i \in 1..Len(current(Session).subanswers) :
                /\ i <= Len(user_answers)
                /\ user_answers[i] = Some(current(Session).subanswers[i]))

\* The dialogue on display and the order the user has built for it.
DialogueShown == Displayed /\ current(Session).type = "dialogue_arrangement"

\* Same length and the same index at each position.
ElementwiseEqual(a, b) == Len(a) = Len(b) /\ \A i \in 1..Len(a) : a[i] = b[i]

\* C8: a dialogue question is marked correct exactly by a check of a built
\* order that is elementwise equal to correct_order; a check of a partial or
\* differently ordered sequence marks it incorrect.
C8_DialogueExactOrder ==
    DialogueShown =>
        (is_correct <=>
            /\ event.kind = "check"
            /\ ElementwiseEqual(dialogue_order[current(Session).id],
                                current(Session).correct_order))

\* C8 witness: a check of a proper, non-empty prefix of the correct order,
\* marked incorrect.
C8_Witness ==
    /\ DialogueShown
    /\ event.kind = "check"
    /\ ~is_correct
    /\ dialogue_order[current(Session).id] # <<>>
    /\ Len(dialogue_order[current(Session).id]) < Len(current(Session).correct_order)
    /\ orders_equal_prefix(dialogue_order[current(Session).id],
                           current(Session).correct_order)

\* C9: with a quiz present current_question is a valid index; "previous" on
\* the first question and "next" on the last leave it unchanged, and otherwise
\* they move it by exactly one, where it stays in the run that st.rerun()
\* starts.
C9_NavigationStaysInside ==
    /\ [](has_quiz => current_question \in QuestionIndices)
    /\ [][event'.kind = "rerun" => current_question' = current_question]_vars
    /\ [][(has_quiz /\ event'.kind = "prev") =>
             current_question' = IF current_question = 0 THEN 0
                                 ELSE current_question - 1]_vars
    /\ [][(has_quiz /\ event'.kind = "next") =>
             current_question' = IF current_question = Len(quiz_data.questions) - 1
                                 THEN current_question
                                 ELSE current_question + 1]_vars

\* C9 witness: the run after "previous" was pressed on the second question,
\* which the user had reached through the selectbox.
C9_Witness ==
    /\ has_quiz
    /\ event.kind = "rerun"
    /\ Len(quiz_data.questions) > 1
    /\ current_question = 0
    /\ selectbox = [options |-> Len(quiz_data.questions), index |-> 0, value |-> 0]

\* The latest run was a generate action that stored a new quiz.
SuccessfulGenerate == event.kind = "generate" /\ returned.kind = "quiz"

\* The cache the display routine of the question's type reads.
CacheOf(question) ==
    CASE question.type = "gap_filling" -> gap_options_cache
      [] question.type = "dialogue_arrangement" -> dialogue_parts_cache
      [] question.type = "reading_comprehension" -> <<>>
      [] OTHER -> options_cache

\* C12 as stated: after a successful generate action current_question is 0,
\* score is 0, answered_questions is empty, and nothing cached for the previous
\* quiz is left for a question of the new quiz with the same id: the questions
\* not yet rendered have no cache entry and a dialogue on display starts from
\* an empty order.
C12_GenerateDiscardsPreviousQuiz ==
    SuccessfulGenerate =>
        /\ current_question = 0
        /\ score = 0
        /\ answered_questions = {}
        /\ \A k \in 1..Len(quiz_data.questions) :
              LET question == quiz_data.questions[k]
              IN /\ k - 1 # current_question =>
                        question.id \notin DOMAIN CacheOf(question)
                 /\ (k - 1 = current_question
                       /\ question.type = "dialogue_arrangement") =>
                        dialogue_order[question.id] = <<>>

\* C19: with a quiz present the score is the number of counted indices, every
\* counted index is an index of the current quiz, and so the score is at most
\* the number of questions.
C19_ScoreCountsAnswered ==
    has_quiz =>
        /\ score = Cardinality(answered_questions)
        /\ \A i \in answered_questions : 0 <= i /\ i < Len(quiz_data.questions)
        /\ score <= Len(quiz_data.questions)

\* C19 witness: a quiz of one question, generated after a quiz of three whose
\* questions were all counted, with its question counted.
C19_Witness ==
    /\ has_quiz
    /\ Len(quiz_data.questions) = 1
    /\ score = 1
    /\ answered_questions = {0}
    /\ event.kind = "check"
    /\ is_correct

\* C15 as stated: the score goes up only in a run where the check button was
\* pressed with a correct submission, and a run that only navigates to a
\* question or renders it again changes neither score nor answered_questions.
C15_ScoreOnlyOnCorrectCheck ==
    [][/\ score' > score => (event'.kind = "check" /\ is_correct')
       /\ (has_quiz /\ event'.kind \in {"prev", "next", "select", "rerender", "choose"}) =>
             (score' = score /\ answered_questions' = answered_questions)]_vars

(***************************************************************************)
(* Claims about the option lists (SpecOptions).                           *)
(***************************************************************************)
\* The question is shown by the pinyin+meaning routine.
PinyinRoutine(question) ==
    question.type \notin {"gap_filling", "dialogue_arrangement", "reading_comprehension"}

\* One list is a rearrangement of the other.
Rearranged(a, b) ==
    /\ Len(a) = Len(b)
    /\ \A x \in {a[i] : i \in 1..Len(a)} \cup {b[i] : i \in 1..Len(b)} :
          Cardinality({i \in 1..Len(a) : a[i] = x}) = Cardinality({i \in 1..Len(b) : b[i] = x})

\* Every entry of the cache is still there, unchanged, after the step.
Kept(cache, after) == \A id \in DOMAIN cache : id \in DOMAIN after /\ after[id] = cache[id]

\* The options a question's routine shuffles on the first render.
own_options(question) ==
    IF question.type = "gap_filling" THEN question.options
    ELSE meaning_options(question)

\* C16 as stated: within one quiz the shuffled order of a question is computed
\* on the run that first shows it, so the order on display is a rearrangement
\* of the question's own options, and no later navigation, re-render or check
\* run changes or drops a cached order; only a generate action that stores a
\* new quiz may.
C16_ShuffleFixedAtFirstRender ==
    /\ [](Displayed =>
            LET question == current(Session)
            IN (PinyinRoutine(question) \/ question.type = "gap_filling") =>
                  /\ question.id \in DOMAIN CacheOf(question)
                  /\ Rearranged(CacheOf(question)[question.id], own_options(question)))
    /\ [][SameQuizStep =>
            /\ Kept(options_cache, options_cache')
            /\ Kept(gap_options_cache, gap_options_cache')]_vars

\* C20: every question shown by the pinyin+meaning routine (pinyin type, error
\* placeholder, unrecognised type) has an option list of exactly 4 entries,
\* pairwise different ignoring case, of which exactly one is the correct
\* meaning, the only option the check accepts.
C20_FourDistinctOptions ==
    has_quiz =>
        /\ (Displayed /\ PinyinRoutine(current(Session))) =>
              current(Session).id \in DOMAIN options_cache
        /\ \A k \in 1..Len(quiz_data.questions) :
              LET question == quiz_data.questions[k]
              IN (PinyinRoutine(question) /\ question.id \in DOMAIN options_cache) =>
                    LET shown == options_cache[question.id]
                    IN /\ Len(shown) = 4
                       /\ \A i, j \in 1..Len(shown) :
                             i # j => Lower(shown[i]) # Lower(shown[j])
                       /\ Cardinality({i \in 1..Len(shown) : shown[i] = question.meaning}) = 1
                       /\ Cardinality({i \in 1..Len(shown) :
                                          Lower(shown[i]) = Lower(question.meaning)}) = 1

\* C20 witness: the error placeholder on display with its options, in a quiz
\* whose first question used up the fallback pool, so that the merge left the
\* placeholder short of three wrong meanings.
C20_Witness ==
    /\ has_quiz
    /\ Len(quiz_data.questions) = 2
    /\ Len(quiz_data.questions[1].wrong_meanings) > Len(common_wrong_options) - 3
    /\ current(Session).type = "error"
    /\ current(Session).id \in DOMAIN options_cache

====
